---- MODULE Spec2Model ----
(***************************************************************************)
(* Model of src/main.py, the WinOLS Damos (.a2l) translator: the quoted-   *)
(* fragment pipeline of main(), translate_line(), translate_text_frag(),   *)
(* load_cache() and save_cache().                                          *)
(*                                                                         *)
(* Characters are one-token strings.  A line is a sequence of characters,  *)
(* a file a sequence of lines.  Time is counted in quarter seconds, so     *)
(* that BASE_BACKOFF = 0.75 s is the integer 3 and                         *)
(* CACHE_SAVE_INTERVAL_SEC = 5.0 s is 20.                                  *)
(***************************************************************************)
EXTENDS Integers, Sequences, FiniteSets, TLC

(***************************************************************************)
(* Characters                                                              *)
(***************************************************************************)
DQ == "DQ"      \* the double quote
LF == "LF"      \* \n
CR == "CR"      \* \r
SP == "SP"      \* a blank
WIDE == "W"     \* a character outside Latin-1 (a translation may hold one)
BS == "BS"      \* the backslash

\* str.strip() removes these (line 114); LF and CR never occur inside a line
Whitespace == {SP, LF, CR}

(***************************************************************************)
(* Program constants (lines 34-36) and the bound of the model              *)
(***************************************************************************)
CACHE_SAVE_INTERVAL_SEC == 20
RETRY_LIMIT == 5
BASE_BACKOFF == 3

MaxLines == 2

(***************************************************************************)
(* Input domain: the texts of the lines of the input file.                 *)
(*   x SP            no quote                                              *)
(*   x"a"x           one fragment                                          *)
(*   ""x" "          an empty and an all-blank fragment                    *)
(*   "a"" a"         two fragments, keys differing in a blank              *)
(*   "a"x"           odd number of quotes                                  *)
(***************************************************************************)
Lines ==
    { <<"x", SP>>,
      <<"x", DQ, "a", DQ, "x">>,
      <<DQ, DQ, "x", DQ, SP, DQ>>,
      <<DQ, "a", DQ, DQ, SP, "a", DQ>>,
      <<DQ, "a", DQ, "x", DQ>> }

MkFile(texts, style, final) ==
    [i \in 1..Len(texts) |->
        [text |-> texts[i],
         eol  |-> IF i = Len(texts) /\ ~final THEN "NONE" ELSE style]]

\* line terminators of a file: \n throughout, \r\n throughout, or \n with
\* the last line unterminated
Inputs ==
    { MkFile(t, e[1], e[2]) :
        t \in UNION { [1..n -> Lines] : n \in 0..MaxLines },
        e \in { <<"LF", TRUE>>, <<"CRLF", TRUE>>, <<"LF", FALSE>> } }

\* What the external capability may answer for a fragment: the text
\* unchanged, or another text (here with a character outside Latin-1).
Translations(f) == { f, <<"b", WIDE>> }

(***************************************************************************)
(* Sequences helpers                                                       *)
(***************************************************************************)
Slice(s, i, j) == IF i > j THEN <<>> ELSE SubSeq(s, i, j)

Contains(s, c) == \E i \in 1..Len(s) : s[i] = c

(***************************************************************************)
(* The cache: a Python dict, kept as its sequence of <<key, value>> pairs  *)
(* in insertion order.                                                     *)
(***************************************************************************)
Has(c, k) == \E i \in 1..Len(c) : c[i][1] = k

Get(c, k) == c[CHOOSE i \in 1..Len(c) : c[i][1] = k][2]

\* fault variant: storing a key forgets every other key
PutReplaceAll(c, k, v) == << <<k, v>> >>

Put(c, k, v) ==
    IF Has(c, k)
    THEN [i \in 1..Len(c) |-> IF c[i][1] = k THEN <<k, v>> ELSE c[i]]
    ELSE Append(c, <<k, v>>)

\* fault variant: strings are written as they are, without escapes
JsonStringRaw(s) == s

\* json.dump spells a string (line 82, ensure_ascii=False): the quote, the
\* backslash and the newline are escaped, every other character is written
\* as it is
RECURSIVE JsonString(_)
JsonString(s) ==
    IF s = <<>> THEN <<>>
    ELSE (IF s[1] = DQ THEN <<BS, DQ>>
          ELSE IF s[1] = BS THEN <<BS, BS>>
          ELSE IF s[1] = LF THEN <<BS, "n">>
          ELSE <<s[1]>>) \o JsonString(Tail(s))

\* json.load accepts the spelling of a string (line 72)
RECURSIVE ValidJsonString(_)
ValidJsonString(t) ==
    IF t = <<>> THEN TRUE
    ELSE IF t[1] = BS
         THEN /\ Len(t) >= 2
              /\ t[2] \in {BS, DQ, "n"}
              /\ ValidJsonString(Slice(t, 3, Len(t)))
    ELSE IF t[1] \in {DQ, LF} THEN FALSE
    ELSE ValidJsonString(Tail(t))

\* and reads it back
RECURSIVE JsonParseString(_)
JsonParseString(t) ==
    IF t = <<>> THEN <<>>
    ELSE IF t[1] = BS
         THEN <<(IF t[2] = "n" THEN LF ELSE t[2])>>
                \o JsonParseString(Slice(t, 3, Len(t)))
    ELSE <<t[1]>> \o JsonParseString(Tail(t))

\* json.load of an object: pairs in file order, a repeated key keeps its
\* first position and its last value
RECURSIVE ParseObject(_, _)
ParseObject(entries, acc) ==
    IF entries = <<>> THEN acc
    ELSE ParseObject(Tail(entries),
                     Put(acc, JsonParseString(Head(entries)[1]),
                              JsonParseString(Head(entries)[2])))

\* A file that holds JSON is kept as the sequence of the <<key, value>>
\* members of its text, each string as it is spelled between its quotes.
\* kind "json": the text of an object; "null": the text null, a JSON value
\* that is no object; "corrupt": a text json.load rejects.
NoFile == [kind |-> "missing", entries |-> <<>>]
EmptyFile == [kind |-> "corrupt", entries |-> <<>>]

\* fault variant: the dump loses the first entry of the mapping
JsonDumpLossy(c) ==
    [kind |-> "json",
     entries |-> [i \in 1..(Len(c) - 1) |->
                    <<JsonString(c[i + 1][1]), JsonString(c[i + 1][2])>>]]

\* json.dump(cache, f, ...) (line 82): the whole mapping, in dict order
JsonDump(c) ==
    [kind |-> "json",
     entries |-> [i \in 1..Len(c) |-> <<JsonString(c[i][1]), JsonString(c[i][2])>>]]

\* what json.load returns for the text null
None == << <<"None">> >>

\* lines 68-76: json.load of the file, {} when there is no file or
\* json.load raises
load_cache(file) ==
    IF file.kind = "missing" THEN <<>>
    ELSE IF file.kind = "null" THEN None
    ELSE IF /\ file.kind = "json"
            /\ \A i \in 1..Len(file.entries) :
                  /\ ValidJsonString(file.entries[i][1])
                  /\ ValidJsonString(file.entries[i][2])
    THEN ParseObject(file.entries, <<>>)
    ELSE <<>>

\* the cache file the run finds: none; a text that is no JSON; the text
\* null; {"a": "bW"}; {"a": "a", " a": "b\\"} (the value is b and a
\* backslash)
InitCacheFiles ==
    { NoFile,
      [kind |-> "corrupt", entries |-> << <<<<"a">>, <<"b">>>> >>],
      [kind |-> "null", entries |-> <<>>],
      [kind |-> "json", entries |-> << <<<<"a">>, <<"b", WIDE>>>> >>],
      [kind |-> "json",
       entries |-> << <<<<"a">>, <<"a">>>>, <<<<SP, "a">>, <<"b", BS, BS>>>> >>] }

(***************************************************************************)
(* Reading and writing text files (lines 196-197)                          *)
(***************************************************************************)
EolBytes(eol) ==
    IF eol = "LF" THEN <<LF>>
    ELSE IF eol = "CRLF" THEN <<CR, LF>>
    ELSE <<>>

\* the bytes of line i of the input file
RawLine(rec) == rec.text \o EolBytes(rec.eol)

\* iterating a file opened in text mode: universal newlines, every line
\* terminator is read as \n
ReadLine(rec) == rec.text \o (IF rec.eol = "NONE" THEN <<>> ELSE <<LF>>)

\* encoding="latin1", errors="ignore" on the output: characters outside
\* Latin-1 are dropped
Encode(s) == SelectSeq(s, LAMBDA c : c # WIDE)

\* line.rstrip("\n") (line 204)
RECURSIVE Rstrip(_)
Rstrip(s) ==
    IF s # <<>> /\ s[Len(s)] = LF THEN Rstrip(Slice(s, 1, Len(s) - 1)) ELSE s

(***************************************************************************)
(* QUOTE_RE = "(.*?)" (line 33)                                            *)
(***************************************************************************)
IsMatch(s, i, j) ==
    /\ i < j
    /\ s[i] = DQ
    /\ s[j] = DQ
    /\ \A k \in (i + 1)..(j - 1) : s[k] \notin {DQ, LF}

MatchesFrom(s, from) ==
    { m \in (from..Len(s)) \X (from..Len(s)) : IsMatch(s, m[1], m[2]) }

HasMatch(s, from) == MatchesFrom(s, from) # {}

\* the leftmost match at or after from
NextMatch(s, from) ==
    CHOOSE m \in MatchesFrom(s, from) :
        \A n \in MatchesFrom(s, from) : m[1] <= n[1]

\* fault variant: only the empty fragment is kept, a blank one is not
IsBlankEmptyOnly(inner) == inner = <<>>

\* inner.strip() is empty (line 114)
IsBlank(inner) == \A k \in 1..Len(inner) : inner[k] \in Whitespace

\* fault variant: a backoff that grows linearly instead of doubling
SleepSecondsLinear(a) == BASE_BACKOFF * (a + 1)

\* BASE_BACKOFF * (2 ** attempt) (line 94)
SleepSeconds(a) == BASE_BACKOFF * (2 ^ a)

\* new_line + "\n" (line 213)
WrittenLine(l) == l \o <<LF>>

(***************************************************************************)
(* State                                                                   *)
(***************************************************************************)
VARIABLES
    inFile,         \* the input file: [text, eol] per line
    cacheFile,      \* the cache file on disk
    tmpFile,        \* its temporary sibling
    outFile,        \* the output file: one entry per write() call
    pc,             \* position of the program
    run,            \* 1 or 2: which run of the program this is
    cache,          \* the in-memory cache
    total_lines, changed_lines, last_save, now,
    clock,          \* time.time(), from the start of the run
    lineno,         \* lines of the input read so far
    line,           \* the line as read
    tl_line,        \* translate_line's argument
    changed, pos, new_line, inner, out, source,
    attempt,        \* translate_text_frag's loop variable
    save_ret,       \* which call of save_cache is running
    calls,          \* log: the argument of every call of the capability
    misses,         \* log: the argument of every call of translate_text_frag
    subs,           \* log: <<fragment, text>> of every substitution made
    ncall, nfail, sleeps, stub_text,  \* log of the current translate_text_frag
    cache0,         \* the cache as loaded at the start of this run
    interrupts,     \* KeyboardInterrupts raised in this run
    cut_call,       \* one of them was raised while a call was in flight
    shutdown_saves, \* save_cache calls completed after the loop of this run
    fallbacks,      \* log: the fragments translate_text_frag gave up on
    prev            \* the first run: its loaded cache, final cache and output

vars == << inFile, cacheFile, tmpFile, outFile, pc, run, cache, total_lines,
           changed_lines, last_save, now, clock, lineno, line, tl_line,
           changed, pos, new_line, inner, out, source, attempt, save_ret,
           calls, misses, subs, ncall, nfail, sleeps, stub_text, cache0,
           interrupts, cut_call, shutdown_saves, fallbacks, prev >>

disk == << inFile, cacheFile, tmpFile, outFile >>
counters == << total_lines, changed_lines >>
times == << last_save, now, clock >>
lineVars == << lineno, line, tl_line >>
subVars == << changed, pos, new_line, inner, out, source >>
fragLog == << ncall, nfail, sleeps, stub_text >>
runLog == << cache0, interrupts, cut_call, shutdown_saves, fallbacks, prev, run >>

NoPrev == [cache0 |-> <<>>, cache |-> <<>>, out |-> <<>>, fallbacks |-> {}]

Init ==
    /\ inFile \in Inputs
    /\ cacheFile \in InitCacheFiles
    /\ tmpFile = NoFile
    /\ outFile = <<>>
    /\ pc = "start"
    /\ run = 1
    /\ cache = <<>>
    /\ total_lines = 0 /\ changed_lines = 0 /\ last_save = 0 /\ now = 0
    /\ clock = 0
    /\ lineno = 0 /\ line = <<>> /\ tl_line = <<>>
    /\ changed = FALSE /\ pos = 1 /\ new_line = <<>> /\ inner = <<>>
    /\ out = <<>> /\ source = "none"
    /\ attempt = 0
    /\ save_ret = "none"
    /\ calls = <<>> /\ misses = <<>> /\ subs = <<>>
    /\ ncall = 0 /\ nfail = 0 /\ sleeps = <<>> /\ stub_text = <<>>
    /\ cache0 = <<>>
    /\ interrupts = 0
    /\ cut_call = FALSE
    /\ shutdown_saves = 0
    /\ fallbacks = {}
    /\ prev = NoPrev

(***************************************************************************)
(* main(): startup and the loop over the lines (lines 183-215)             *)
(***************************************************************************)
\* fault variant: a call in flight is not covered by the handler
InTryBetweenCalls ==
    \/ pc \in {"for", "sub", "call", "sleep", "miss_ret",
               "write", "write_plain", "periodic"}
    \/ pc \in {"save_open", "save_dump", "save_replace"} /\ save_ret = "periodic"

\* the region of the try block (lines 195-223)
InTry ==
    \/ pc \in {"for", "sub", "call", "inflight", "sleep", "miss_ret",
               "write", "write_plain", "periodic"}
    \/ pc \in {"save_open", "save_dump", "save_replace"} /\ save_ret = "periodic"

Ended == pc \in {"done", "exit1", "crashed"}

\* the value is None, not a dict
IsNone(c) == Len(c) = 1 /\ Len(c[1]) = 1

\* fault variant: the cache file is not loaded, the run starts from {}
StartupFresh ==
    /\ pc = "start"
    /\ cache' = <<>>
    /\ cache0' = load_cache(cacheFile)
    /\ total_lines' = 0
    /\ changed_lines' = 0
    /\ last_save' = clock
    /\ IF IsNone(cache')
       THEN pc' = "crashed" /\ outFile' = outFile
       ELSE pc' = "for" /\ outFile' = <<>>
    /\ UNCHANGED << inFile, cacheFile, tmpFile, run, now, clock, lineVars,
                    subVars, attempt, save_ret, calls, misses, subs, fragLog,
                    interrupts, cut_call, shutdown_saves, prev,
                    fallbacks >>

\* lines 183-197: load the cache, reset the counters, open both files.
\* len(cache) of line 191 raises TypeError when load_cache returned None:
\* the program ends there with a traceback, before the output is opened.
Startup ==
    /\ pc = "start"
    /\ cache' = load_cache(cacheFile)
    /\ cache0' = load_cache(cacheFile)
    /\ total_lines' = 0
    /\ changed_lines' = 0
    /\ last_save' = clock
    /\ IF IsNone(cache')
       THEN pc' = "crashed" /\ outFile' = outFile
       ELSE pc' = "for" /\ outFile' = <<>>
    /\ UNCHANGED << inFile, cacheFile, tmpFile, run, now, clock, lineVars,
                    subVars, attempt, save_ret, calls, misses, subs, fragLog,
                    interrupts, cut_call, shutdown_saves, prev,
                    fallbacks >>

\* lines 199-210: the next line is read; a line with a quote enters
\* translate_line (whose own test of line 135 then never succeeds)
NextLine ==
    /\ pc = "for"
    /\ lineno < Len(inFile)
    /\ lineno' = lineno + 1
    /\ line' = ReadLine(inFile[lineno + 1])
    /\ total_lines' = total_lines + 1
    /\ IF Contains(line', DQ)
       THEN /\ tl_line' = Rstrip(line')
            /\ changed' = FALSE
            /\ pos' = 1
            /\ new_line' = <<>>
            /\ pc' = "sub"
       ELSE /\ pc' = "write_plain"
            /\ UNCHANGED << tl_line, changed, pos, new_line >>
    /\ UNCHANGED << disk, run, cache, changed_lines, times, inner, out,
                    source, attempt, save_ret, calls, misses, subs, fragLog,
                    cache0, interrupts, cut_call, shutdown_saves, prev,
                    fallbacks >>

\* the for loop ends, the with block closes both files
EndOfInput ==
    /\ pc = "for"
    /\ lineno = Len(inFile)
    /\ pc' = "final"
    /\ UNCHANGED << disk, run, cache, counters, times, lineVars, subVars,
                    attempt, save_ret, calls, misses, subs, fragLog, cache0,
                    interrupts, cut_call, shutdown_saves, prev,
                    fallbacks >>

(***************************************************************************)
(* translate_line(): QUOTE_RE.sub(_repl, line) (lines 109-139)             *)
(***************************************************************************)
MStart == NextMatch(tl_line, pos)[1]
MEnd == NextMatch(tl_line, pos)[2]
\* m.group(1), m.group(0) and the text copied before the match
Group1 == Slice(tl_line, MStart + 1, MEnd - 1)
Group0 == Slice(tl_line, MStart, MEnd)
Before == Slice(tl_line, pos, MStart - 1)

\* f"\"{out}\"" (line 133)
Quoted(t) == <<DQ>> \o t \o <<DQ>>

\* lines 113-115: an empty or blank fragment is kept as it is
SubInert ==
    /\ pc = "sub"
    /\ HasMatch(tl_line, pos)
    /\ IsBlank(Group1)
    /\ inner' = Group1
    /\ new_line' = new_line \o Before \o Group0
    /\ pos' = MEnd + 1
    /\ UNCHANGED << disk, pc, run, cache, counters, times, lineVars, changed,
                    out, source, attempt, save_ret, calls, misses, subs, fragLog,
                    cache0, interrupts, cut_call, shutdown_saves, prev,
                    fallbacks >>

\* fault variant: a fragment found in the cache is translated all the same
SubHitRefetch ==
    /\ pc = "sub"
    /\ HasMatch(tl_line, pos)
    /\ ~IsBlank(Group1)
    /\ Has(cache, Group1)
    /\ inner' = Group1
    /\ attempt' = 0
    /\ misses' = Append(misses, Group1)
    /\ ncall' = 0 /\ nfail' = 0 /\ sleeps' = <<>> /\ stub_text' = <<>>
    /\ pc' = "call"
    /\ UNCHANGED << disk, run, cache, counters, times, lineVars, changed, pos,
                    new_line, out, source, save_ret, calls, subs, cache0,
                    interrupts, cut_call, shutdown_saves, prev,
                    fallbacks >>

\* lines 117-119, 131-133: cache hit
SubHit ==
    /\ pc = "sub"
    /\ HasMatch(tl_line, pos)
    /\ ~IsBlank(Group1)
    /\ Has(cache, Group1)
    /\ inner' = Group1
    /\ out' = Get(cache, Group1)
    /\ source' = "cache"
    /\ changed' = (changed \/ out' # Group1)
    /\ new_line' = new_line \o Before \o Quoted(out')
    /\ pos' = MEnd + 1
    /\ subs' = Append(subs, <<Group1, out'>>)
    /\ UNCHANGED << disk, pc, run, cache, counters, times, lineVars, attempt,
                    save_ret, calls, misses, fragLog, cache0, interrupts, cut_call,
                    shutdown_saves, prev,
                    fallbacks >>

\* lines 120-121, 88-89: cache miss, translate_text_frag is entered
SubMiss ==
    /\ pc = "sub"
    /\ HasMatch(tl_line, pos)
    /\ ~IsBlank(Group1)
    /\ ~Has(cache, Group1)
    /\ inner' = Group1
    /\ attempt' = 0
    /\ misses' = Append(misses, Group1)
    /\ ncall' = 0 /\ nfail' = 0 /\ sleeps' = <<>> /\ stub_text' = <<>>
    /\ pc' = "call"
    /\ UNCHANGED << disk, run, cache, counters, times, lineVars, changed, pos,
                    new_line, out, source, save_ret, calls, subs, cache0,
                    interrupts, cut_call, shutdown_saves, prev,
                    fallbacks >>

\* fault variant: the text after the last match is not copied
SubDoneDropsTail ==
    /\ pc = "sub"
    /\ ~HasMatch(tl_line, pos)
    /\ new_line' = new_line
    /\ pos' = Len(tl_line) + 1
    /\ pc' = "write"
    /\ UNCHANGED << disk, run, cache, counters, times, lineVars, changed,
                    inner, out, source, attempt, save_ret, calls, misses, subs,
                    fragLog, cache0, interrupts, cut_call, shutdown_saves, prev,
                    fallbacks >>

\* no further match: the rest of the line is copied, translate_line returns
SubDone ==
    /\ pc = "sub"
    /\ ~HasMatch(tl_line, pos)
    /\ new_line' = new_line \o Slice(tl_line, pos, Len(tl_line))
    /\ pos' = Len(tl_line) + 1
    /\ pc' = "write"
    /\ UNCHANGED << disk, run, cache, counters, times, lineVars, changed,
                    inner, out, source, attempt, save_ret, calls, misses, subs,
                    fragLog, cache0, interrupts, cut_call, shutdown_saves, prev,
                    fallbacks >>

(***************************************************************************)
(* translate_text_frag() (lines 86-99)                                     *)
(***************************************************************************)
\* line 89: for attempt in range(RETRY_LIMIT)
MoreAttempts(a) == a < RETRY_LIMIT

\* line 91: translator.translate is called
TranslateCall ==
    /\ pc = "call"
    /\ MoreAttempts(attempt)
    /\ calls' = Append(calls, inner)
    /\ ncall' = ncall + 1
    /\ pc' = "inflight"
    /\ UNCHANGED << disk, run, cache, counters, times, lineVars, subVars,
                    attempt, save_ret, misses, subs, nfail, sleeps, stub_text,
                    cache0, interrupts, cut_call, shutdown_saves, prev,
                    fallbacks >>

\* the time a call of the capability takes to answer (a quarter second)
CallSeconds == 1

\* line 91: the call returns a text, translate_text_frag returns it
TranslateOk ==
    /\ pc = "inflight"
    /\ \E t \in Translations(inner) :
          /\ out' = t
          /\ stub_text' = t
    /\ clock' = clock + CallSeconds
    /\ pc' = "miss_ret"
    /\ UNCHANGED << disk, run, cache, counters, last_save, now, lineVars, changed, pos,
                    new_line, inner, source, attempt, save_ret, calls, misses, subs,
                    ncall, nfail, sleeps, cache0, interrupts, cut_call, shutdown_saves,
                    prev,
                    fallbacks >>

\* fault variant: the exception of the capability is not caught
TranslateFailRaises ==
    /\ pc = "inflight"
    /\ nfail' = nfail + 1
    /\ pc' = "crashed"
    /\ UNCHANGED << disk, run, cache, counters, times, lineVars, subVars,
                    attempt, save_ret, calls, misses, subs, ncall, sleeps, stub_text,
                    cache0, interrupts, cut_call, shutdown_saves, prev,
                    fallbacks >>

\* lines 92-96: the call raises an Exception
TranslateFail ==
    /\ pc = "inflight"
    /\ nfail' = nfail + 1
    /\ pc' = "sleep"
    /\ UNCHANGED << disk, run, cache, counters, times, lineVars, subVars,
                    attempt, save_ret, calls, misses, subs, ncall, sleeps, stub_text,
                    cache0, interrupts, cut_call, shutdown_saves, prev,
                    fallbacks >>

\* line 97: time.sleep(sleep_s) returns, the loop goes on
SleepDone ==
    /\ pc = "sleep"
    /\ clock' = clock + SleepSeconds(attempt)
    /\ sleeps' = Append(sleeps, SleepSeconds(attempt))
    /\ attempt' = attempt + 1
    /\ pc' = "call"
    /\ UNCHANGED << disk, run, cache, counters, last_save, now, lineVars,
                    subVars, save_ret, calls, misses, subs, ncall, nfail, stub_text,
                    cache0, interrupts, cut_call, shutdown_saves, prev,
                    fallbacks >>

\* lines 98-99: the loop is exhausted, the original text is returned
GiveUp ==
    /\ pc = "call"
    /\ ~MoreAttempts(attempt)
    /\ out' = inner
    /\ fallbacks' = fallbacks \cup {inner}
    /\ pc' = "miss_ret"
    /\ UNCHANGED << disk, run, cache, counters, times, lineVars, changed, pos,
                    new_line, inner, source, attempt, save_ret, calls, misses, subs,
                    fragLog, cache0, interrupts, cut_call, shutdown_saves, prev >>

\* fault variant: the result is substituted but not stored in the cache
ReplStoreNoPut ==
    /\ pc = "miss_ret"
    /\ source' = "google"
    /\ changed' = (changed \/ out # inner)
    /\ new_line' = new_line \o Before \o Quoted(out)
    /\ pos' = MEnd + 1
    /\ subs' = Append(subs, <<inner, out>>)
    /\ pc' = "sub"
    /\ UNCHANGED << disk, run, cache, counters, times, lineVars, inner, out,
                    attempt, save_ret, calls, misses, fragLog, cache0,
                    interrupts, cut_call, shutdown_saves, prev,
                    fallbacks >>

\* fault variant: the text returned after the last failure is not stored
ReplStoreSkipsFallback ==
    /\ pc = "miss_ret"
    /\ cache' = (IF nfail = RETRY_LIMIT THEN cache ELSE Put(cache, inner, out))
    /\ source' = "google"
    /\ changed' = (changed \/ out # inner)
    /\ new_line' = new_line \o Before \o Quoted(out)
    /\ pos' = MEnd + 1
    /\ subs' = Append(subs, <<inner, out>>)
    /\ pc' = "sub"
    /\ UNCHANGED << disk, run, counters, times, lineVars, inner, out, attempt,
                    save_ret, calls, misses, fragLog, cache0, interrupts, cut_call,
                    shutdown_saves, prev,
                    fallbacks >>

\* lines 122-123, 131-133: the result is stored and substituted
ReplStore ==
    /\ pc = "miss_ret"
    /\ cache' = Put(cache, inner, out)
    /\ source' = "google"
    /\ changed' = (changed \/ out # inner)
    /\ new_line' = new_line \o Before \o Quoted(out)
    /\ pos' = MEnd + 1
    /\ subs' = Append(subs, <<inner, out>>)
    /\ pc' = "sub"
    /\ UNCHANGED << disk, run, counters, times, lineVars, inner, out, attempt,
                    save_ret, calls, misses, fragLog, cache0, interrupts, cut_call,
                    shutdown_saves, prev,
                    fallbacks >>

(***************************************************************************)
(* main(): writing, periodic save, shutdown (lines 211-232)                *)
(***************************************************************************)
\* fault variant: every line with a quote counts as changed
WriteLineCountsAll ==
    /\ pc = "write"
    /\ changed_lines' = changed_lines + 1
    /\ outFile' = Append(outFile, Encode(WrittenLine(new_line)))
    /\ pc' = "periodic"
    /\ UNCHANGED << inFile, cacheFile, tmpFile, run, cache, total_lines, times,
                    lineVars, subVars, attempt, save_ret, calls, misses, subs,
                    fragLog, cache0, interrupts, cut_call, shutdown_saves, prev,
                    fallbacks >>

\* lines 211-213: a line that went through translate_line
WriteLine ==
    /\ pc = "write"
    /\ changed_lines' = (IF changed THEN changed_lines + 1 ELSE changed_lines)
    /\ outFile' = Append(outFile, Encode(WrittenLine(new_line)))
    /\ pc' = "periodic"
    /\ UNCHANGED << inFile, cacheFile, tmpFile, run, cache, total_lines, times,
                    lineVars, subVars, attempt, save_ret, calls, misses, subs,
                    fragLog, cache0, interrupts, cut_call, shutdown_saves, prev,
                    fallbacks >>

\* line 215: a line without a quote
WritePlain ==
    /\ pc = "write_plain"
    /\ outFile' = Append(outFile, Encode(line))
    /\ pc' = "periodic"
    /\ UNCHANGED << inFile, cacheFile, tmpFile, run, cache, counters, times,
                    lineVars, subVars, attempt, save_ret, calls, misses, subs,
                    fragLog, cache0, interrupts, cut_call, shutdown_saves, prev,
                    fallbacks >>

\* fault variant: the interval must be exceeded
SaveDueStrict(t, last) == t - last > CACHE_SAVE_INTERVAL_SEC

\* line 219: now - last_save >= CACHE_SAVE_INTERVAL_SEC
SaveDue(t, last) == t - last >= CACHE_SAVE_INTERVAL_SEC

\* lines 218-220: the clock is read and the periodic save decided
PeriodicCheck ==
    /\ pc = "periodic"
    /\ now' = clock
    /\ IF SaveDue(clock, last_save)
       THEN /\ save_ret' = "periodic"
            /\ pc' = "save_open"
       ELSE /\ pc' = "for"
            /\ UNCHANGED save_ret
    /\ UNCHANGED << disk, run, cache, counters, last_save, clock, lineVars,
                    subVars, attempt, calls, misses, subs, fragLog, cache0,
                    interrupts, cut_call, shutdown_saves, prev,
                    fallbacks >>

\* line 232: the final save, after the with block
FinalSave ==
    /\ pc = "final"
    /\ save_ret' = "final"
    /\ pc' = "save_open"
    /\ UNCHANGED << disk, run, cache, counters, times, lineVars, subVars,
                    attempt, calls, misses, subs, fragLog, cache0, interrupts, cut_call,
                    shutdown_saves, prev,
                    fallbacks >>

\* lines 225-227: the handler of KeyboardInterrupt calls save_cache
HandlerSave ==
    /\ pc = "handler"
    /\ save_ret' = "handler"
    /\ pc' = "save_open"
    /\ UNCHANGED << disk, run, cache, counters, times, lineVars, subVars,
                    attempt, calls, misses, subs, fragLog, cache0, interrupts, cut_call,
                    shutdown_saves, prev,
                    fallbacks >>

(***************************************************************************)
(* save_cache() (lines 79-83)                                              *)
(***************************************************************************)
\* fault variant: the cache file itself is opened for writing
SaveOpenInPlace ==
    /\ pc = "save_open"
    /\ cacheFile' = EmptyFile
    /\ pc' = "save_dump"
    /\ UNCHANGED << inFile, tmpFile, outFile, run, cache, counters, times,
                    lineVars, subVars, attempt, save_ret, calls, misses, subs,
                    fragLog, cache0, interrupts, cut_call, shutdown_saves, prev,
                    fallbacks >>

\* line 81: the temporary file is opened for writing, which empties it
SaveOpen ==
    /\ pc = "save_open"
    /\ tmpFile' = EmptyFile
    /\ pc' = "save_dump"
    /\ UNCHANGED << inFile, cacheFile, outFile, run, cache, counters, times,
                    lineVars, subVars, attempt, save_ret, calls, misses, subs,
                    fragLog, cache0, interrupts, cut_call, shutdown_saves, prev,
                    fallbacks >>

\* line 82: json.dump writes the text piece by piece; a piece that has
\* reached the disk leaves there a text that is no JSON yet
SaveWrite ==
    /\ pc = "save_dump"
    /\ Len(tmpFile.entries) < Len(JsonDump(cache).entries)
    /\ tmpFile' = [kind |-> "corrupt",
                   entries |-> SubSeq(JsonDump(cache).entries, 1,
                                      Len(tmpFile.entries) + 1)]
    /\ UNCHANGED << inFile, cacheFile, outFile, pc, run, cache, counters, times,
                    lineVars, subVars, attempt, save_ret, calls, misses, subs,
                    fragLog, cache0, interrupts, cut_call, shutdown_saves, prev,
                    fallbacks >>

\* line 82: the rest of the mapping is written and the file closed
SaveDump ==
    /\ pc = "save_dump"
    /\ tmpFile' = JsonDump(cache)
    /\ pc' = "save_replace"
    /\ UNCHANGED << inFile, cacheFile, outFile, run, cache, counters, times,
                    lineVars, subVars, attempt, save_ret, calls, misses, subs,
                    fragLog, cache0, interrupts, cut_call, shutdown_saves, prev,
                    fallbacks >>

\* line 83: tmp.replace(cache_file); save_cache returns to its caller:
\* line 221 (last_save = now), line 229 (sys.exit(1)) or line 234
SaveReplace ==
    /\ pc = "save_replace"
    /\ cacheFile' = tmpFile
    /\ tmpFile' = NoFile
    /\ pc' = (IF save_ret = "periodic" THEN "for"
              ELSE IF save_ret = "handler" THEN "exit1" ELSE "done")
    /\ last_save' = (IF save_ret = "periodic" THEN now ELSE last_save)
    /\ shutdown_saves' =
          (IF save_ret = "periodic" THEN shutdown_saves ELSE shutdown_saves + 1)
    /\ UNCHANGED << inFile, outFile, run, cache, counters, now, clock,
                    lineVars, subVars, attempt, save_ret, calls, misses, subs,
                    fragLog, cache0, interrupts, cut_call, prev,
                    fallbacks >>

\* fault variant: the output file is not closed on the way to the handler and
\* its last write is lost
InterruptLosesLastWrite ==
    /\ ~Ended
    /\ interrupts' = interrupts + 1
    /\ cut_call' = (cut_call \/ pc = "inflight")
    /\ pc' = (IF InTry THEN "handler" ELSE "crashed")
    \* the frames of translate_line and translate_text_frag are unwound
    /\ line' = <<>> /\ tl_line' = <<>>
    /\ changed' = FALSE /\ pos' = 1 /\ new_line' = <<>> /\ inner' = <<>>
    /\ out' = <<>> /\ source' = "none"
    /\ attempt' = 0
    /\ ncall' = 0 /\ nfail' = 0 /\ sleeps' = <<>> /\ stub_text' = <<>>
    \* the loop is abandoned: the clock is not read again, and the logs of
    \* the loop are closed
    /\ last_save' = 0 /\ now' = 0 /\ clock' = 0
    /\ calls' = <<>> /\ misses' = <<>> /\ subs' = <<>> /\ fallbacks' = {}
    /\ outFile' = Slice(outFile, 1, Len(outFile) - 1)
    /\ UNCHANGED << inFile, cacheFile, tmpFile, run, cache, counters, lineno, save_ret, cache0,
                    shutdown_saves, prev >>

(***************************************************************************)
(* KeyboardInterrupt.  It is raised wherever the program is: it is no      *)
(* Exception, so line 92 does not catch it; inside the try block it        *)
(* reaches the handler of line 225 (the with block closes both files on    *)
(* the way), anywhere else it ends the program with a traceback.           *)
(***************************************************************************)
Interrupt ==
    /\ ~Ended
    /\ interrupts' = interrupts + 1
    /\ cut_call' = (cut_call \/ pc = "inflight")
    /\ pc' = (IF InTry THEN "handler" ELSE "crashed")
    \* the frames of translate_line and translate_text_frag are unwound
    /\ line' = <<>> /\ tl_line' = <<>>
    /\ changed' = FALSE /\ pos' = 1 /\ new_line' = <<>> /\ inner' = <<>>
    /\ out' = <<>> /\ source' = "none"
    /\ attempt' = 0
    /\ ncall' = 0 /\ nfail' = 0 /\ sleeps' = <<>> /\ stub_text' = <<>>
    \* the loop is abandoned: the clock is not read again, and the logs of
    \* the loop are closed
    /\ last_save' = 0 /\ now' = 0 /\ clock' = 0
    /\ calls' = <<>> /\ misses' = <<>> /\ subs' = <<>> /\ fallbacks' = {}
    /\ UNCHANGED << disk, run, cache, counters, lineno, save_ret, cache0,
                    shutdown_saves, prev >>

(***************************************************************************)
(* After a run that completed, the program is run a second time on the     *)
(* same input, with the cache file the first run left.                     *)
(***************************************************************************)
Rerun ==
    /\ pc = "done"
    /\ run = 1
    /\ run' = 2
    /\ prev' = [cache0 |-> cache0, cache |-> cache, out |-> outFile,
                fallbacks |-> fallbacks]
    /\ pc' = "start"
    /\ cache' = <<>>
    /\ total_lines' = 0 /\ changed_lines' = 0 /\ last_save' = 0 /\ now' = 0
    /\ clock' = 0
    /\ lineno' = 0 /\ line' = <<>> /\ tl_line' = <<>>
    /\ changed' = FALSE /\ pos' = 1 /\ new_line' = <<>> /\ inner' = <<>>
    /\ out' = <<>> /\ source' = "none"
    /\ attempt' = 0
    /\ save_ret' = "none"
    /\ calls' = <<>> /\ misses' = <<>> /\ subs' = <<>>
    /\ ncall' = 0 /\ nfail' = 0 /\ sleeps' = <<>> /\ stub_text' = <<>>
    /\ cache0' = <<>>
    /\ interrupts' = 0
    /\ cut_call' = FALSE
    /\ shutdown_saves' = 0
    /\ fallbacks' = {}
    /\ UNCHANGED disk

\* a step of the program when the operator does not interrupt it
Uninterrupted ==
    \/ Startup \/ NextLine \/ EndOfInput
    \/ SubInert \/ SubHit \/ SubMiss \/ SubDone
    \/ TranslateCall \/ TranslateOk \/ TranslateFail \/ SleepDone \/ GiveUp
    \/ ReplStore
    \/ WriteLine \/ WritePlain \/ PeriodicCheck
    \/ FinalSave
    \/ SaveOpen \/ SaveWrite \/ SaveDump \/ SaveReplace

Step ==
    \/ Uninterrupted
    \/ Interrupt \/ HandlerSave

Next ==
    \/ Step
    \/ Rerun

\* one run of the program
Spec == Init /\ [][Step]_vars

\* two runs, one after the other
SpecTwice == Init /\ [][Next]_vars

\* one run that no KeyboardInterrupt reaches, from a cold start (no cache
\* file, so that every fragment goes to the capability) on an input with
\* \n line ends: a sequential program takes its next step, and every call
\* of the capability ends, by an answer or by an exception
InitCold ==
    /\ Init
    /\ cacheFile = NoFile
    /\ \A i \in 1..Len(inFile) : inFile[i].eol # "CRLF"

SpecUninterrupted ==
    InitCold /\ [][Uninterrupted]_vars /\ WF_vars(Uninterrupted)

(***************************************************************************)
(* Properties                                                              *)
(***************************************************************************)
Range(q) == { q[i] : i \in 1..Len(q) }

\* the fragments of the input domain that are not inert
Fragments == { <<"a">>, <<SP, "a">> }

Count(q, x) == Cardinality({ i \in 1..Len(q) : q[i] = x })

\* the contents of the quoted fragments of a line, left to right
RECURSIVE FragsFrom(_, _)
FragsFrom(s, from) ==
    IF ~HasMatch(s, from) THEN <<>>
    ELSE LET m == NextMatch(s, from)
         IN  <<Slice(s, m[1] + 1, m[2] - 1)>> \o FragsFrom(s, m[2] + 1)

\* a fragment that is empty or holds blanks only
OnlyBlanks(f) == Range(f) \subseteq {SP}

LinesWith(f) ==
    { i \in 1..Len(inFile) : f \in Range(FragsFrom(inFile[i].text, 1)) }

\* the value a mapping holds for a key
ValueOf(c, k) == CHOOSE v \in { e[2] : e \in Range(c) } : <<k, v>> \in Range(c)

\* C1: translate_text_frag, when the capability fails k times and then
\* succeeds: for k < RETRY_LIMIT it returns the capability's answer after
\* k + 1 calls and exactly k waits of BASE_BACKOFF * 2^0, ..., 2^(k-1), in
\* that order; when all RETRY_LIMIT attempts fail it returns the original
\* text after exactly RETRY_LIMIT calls and RETRY_LIMIT waits.
C1_RetryBackoff ==
    pc = "miss_ret" =>
        IF nfail < RETRY_LIMIT
        THEN /\ out = stub_text
             /\ ncall = nfail + 1
             /\ sleeps = [i \in 1..nfail |-> BASE_BACKOFF * 2 ^ (i - 1)]
        ELSE /\ out = inner
             /\ ncall = RETRY_LIMIT
             /\ Len(sleeps) = RETRY_LIMIT

\* translate_text_frag has returned the original text after RETRY_LIMIT
\* failures
C1_Witness == pc = "miss_ret" /\ nfail = RETRY_LIMIT /\ out = inner

\* C2: when the next fragment of the line is a key of the cache, the step
\* that processes it calls neither the capability nor translate_text_frag
\* and appends the cached value, in quotes, to the new line.
C2_CacheHitPrecedence ==
    [][ ( /\ pc = "sub"
          /\ HasMatch(tl_line, pos)
          /\ ~OnlyBlanks(Group1)
          /\ Group1 \in { e[1] : e \in Range(cache) }
          /\ pc' # "handler" )
        => ( /\ pc' = "sub"
             /\ calls' = calls
             /\ misses' = misses
             /\ cache' = cache
             /\ new_line' = new_line \o Before
                              \o <<DQ>> \o ValueOf(cache, Group1) \o <<DQ>>
             /\ pos' = MEnd + 1 ) ]_vars

\* a fragment has just been substituted from the cache
C2_Witness ==
    /\ pc = "sub"
    /\ pos > 1
    /\ source = "cache"
    /\ ~OnlyBlanks(inner)
    /\ subs # <<>>
    /\ subs[Len(subs)] = <<inner, ValueOf(cache, inner)>>

\* a fragment absent from the loaded cache that stands on two lines
TwiceAndCold(f) ==
    /\ ~OnlyBlanks(f)
    /\ f \notin { e[1] : e \in Range(cache0) }
    /\ Cardinality(LinesWith(f)) >= 2

\* every substitution of f put the same text
SameSubstitutions(f) ==
    \A i, j \in 1..Len(subs) :
        subs[i][1] = f /\ subs[j][1] = f => subs[i][2] = subs[j][2]

\* C3 as stated: a completed run makes exactly one call of the capability
\* for a fragment that was not in the cache and stands on two lines, and
\* substitutes its occurrences with the same text.
C3_Original ==
    pc = "done" =>
        \A f \in Fragments :
            TwiceAndCold(f) => Count(calls, f) = 1 /\ SameSubstitutions(f)

\* C3, amended: a completed run has exactly one cache miss for such a
\* fragment, that is one call of translate_text_frag, which makes between
\* 1 and RETRY_LIMIT calls of the capability; all occurrences of the
\* fragment are substituted with the same text.
C3_OneMiss ==
    pc = "done" =>
        \A f \in Fragments :
            TwiceAndCold(f) =>
                /\ Count(misses, f) = 1
                /\ Count(calls, f) \in 1..RETRY_LIMIT
                /\ Count(subs, <<f, ValueOf(cache, f)>>) >= 2
                /\ SameSubstitutions(f)

\* a completed run in which such a fragment needed more than one call
C3_Witness ==
    /\ pc = "done"
    /\ \E f \in Fragments : TwiceAndCold(f) /\ Count(calls, f) > 1

\* C4: the step that processes an empty or all-blank fragment copies the
\* fragment, quotes included, to the new line and leaves the cache, the
\* calls of the capability and the changed flag as they were.
C4_InertFragment ==
    [][ ( /\ pc = "sub"
          /\ HasMatch(tl_line, pos)
          /\ OnlyBlanks(Group1)
          /\ pc' # "handler" )
        => ( /\ pc' = "sub"
             /\ new_line' = new_line \o Before \o <<DQ>> \o Group1 \o <<DQ>>
             /\ pos' = MEnd + 1
             /\ cache' = cache
             /\ calls' = calls
             /\ misses' = misses
             /\ subs' = subs
             /\ changed' = changed ) ]_vars

\* an all-blank fragment has just been copied
C4_Witness ==
    /\ pc = "sub"
    /\ inner = <<SP>>
    /\ pos > Len(inner) + 2
    /\ Slice(new_line, Len(new_line) - 2, Len(new_line)) = <<DQ, SP, DQ>>

\* the cache holds every fragment of the input that is not inert
Warm(c) ==
    \A i \in 1..Len(inFile) :
        \A f \in Range(FragsFrom(inFile[i].text, 1)) :
            OnlyBlanks(f) \/ f \in { e[1] : e \in Range(c) }

\* C5: when the first run started with a warm cache and both runs
\* completed, the second run wrote the same output as the first, made no
\* call of the capability, and the cache mapping after the second run is
\* the one after the first run and the one loaded at the start.
C5_WarmIdempotent ==
    (run = 2 /\ pc = "done" /\ Warm(prev.cache0)) =>
        /\ outFile = prev.out
        /\ calls = <<>>
        /\ Range(cache) = Range(prev.cache)
        /\ Range(cache) = Range(prev.cache0)
        /\ Range(load_cache(cacheFile)) = Range(cache)

\* a second run over a warm cache that substituted fragments
C5_Witness ==
    /\ run = 2
    /\ pc = "done"
    /\ Warm(prev.cache0)
    /\ subs # <<>>
    /\ \E i \in 1..Len(outFile) : outFile[i] # Encode(ReadLine(inFile[i]))

\* a line with the contents of its quoted fragments removed
RECURSIVE Outside(_, _)
Outside(s, from) ==
    IF ~HasMatch(s, from) THEN Slice(s, from, Len(s))
    ELSE LET m == NextMatch(s, from)
         IN  Slice(s, from, m[1]) \o <<DQ>> \o Outside(s, m[2] + 1)

\* C6 as stated, for an input without \r: every line written equals the
\* bytes of its input line outside the quoted fragments (quotes and line
\* terminator included), and a completed run has written as many lines as
\* the input holds.
C6_Original ==
    (\A i \in 1..Len(inFile) : inFile[i].eol # "CRLF") =>
        /\ \A i \in 1..Len(outFile) :
              Outside(outFile[i], 1) = Outside(RawLine(inFile[i]), 1)
        /\ pc = "done" => Len(outFile) = Len(inFile)

\* C7 as stated: the line written for an input line without a double
\* quote equals the bytes of that input line.
C7_Original ==
    \A i \in 1..Len(outFile) :
        ~Contains(inFile[i].text, DQ) => outFile[i] = RawLine(inFile[i])

\* C8 as stated: a run that has read a line and was interrupted at most
\* once ends either normally or through the handler, has then completed
\* exactly one save_cache after the loop, and leaves a cache file that
\* holds the in-memory mapping.
C8_Original ==
    (Ended /\ total_lines > 0 /\ interrupts <= 1) =>
        /\ pc = (IF interrupts = 0 THEN "done" ELSE "exit1")
        /\ shutdown_saves = 1
        /\ cacheFile.kind = "json"
        /\ Range(load_cache(cacheFile)) = Range(cache)

\* the text translate_line returns for a line, given the final mapping
RECURSIVE Render(_, _, _)
Render(s, from, c) ==
    IF ~HasMatch(s, from) THEN Slice(s, from, Len(s))
    ELSE LET m == NextMatch(s, from)
             f == Slice(s, m[1] + 1, m[2] - 1)
         IN  Slice(s, from, m[1] - 1)
               \o (IF OnlyBlanks(f) THEN <<DQ>> \o f \o <<DQ>>
                   ELSE <<DQ>> \o ValueOf(c, f) \o <<DQ>>)
               \o Render(s, m[2] + 1, c)

\* the complete output line of input line i
ExpectedLine(i) ==
    IF Contains(inFile[i].text, DQ)
    THEN SelectSeq(Render(inFile[i].text, 1, cache), LAMBDA ch : ch # WIDE)
           \o <<LF>>
    ELSE inFile[i].text \o (IF inFile[i].eol = "NONE" THEN <<>> ELSE <<LF>>)

\* the handler of KeyboardInterrupt is running or has exited
Handled ==
    \/ pc \in {"handler", "exit1"}
    \/ pc \in {"save_open", "save_dump", "save_replace"} /\ save_ret = "handler"

\* C9: from the interruption to the exit of the handler, the output file
\* holds one complete line for each input line read, in input order,
\* except that the line being processed at the interruption is absent when
\* it had not been written yet.
C9_PartialOutput ==
    Handled =>
        /\ total_lines = lineno
        /\ Len(outFile) \in {n \in {total_lines - 1, total_lines} : n >= 0}
        /\ \A i \in 1..Len(outFile) :
              /\ outFile[i] = ExpectedLine(i)
              /\ i < Len(inFile) => outFile[i][Len(outFile[i])] = LF

\* the handler has exited after an interruption that came when one line
\* was written and the next one was being processed
C9_Witness ==
    /\ pc = "exit1"
    /\ Len(outFile) = 1
    /\ total_lines = 2
    /\ Contains(inFile[1].text, DQ)

HoldsAll(file, c) ==
    /\ file.kind = "json"
    /\ Len(file.entries) = Len(c)
    /\ Range(load_cache(file)) = Range(c)

\* C11: save_cache is all-or-nothing for a reader of the cache file: a step
\* either leaves the cache file as it was or replaces it, at the rename of
\* line 83, by the temporary file, which by then holds the complete text of
\* the mapping; no other step of a flush, and no interruption of it,
\* touches the cache file.
C11_AllOrNothing ==
    [][ /\ pc = "save_replace" => HoldsAll(tmpFile, cache)
        /\ cacheFile' # cacheFile =>
              /\ pc = "save_replace"
              /\ cacheFile' = tmpFile
              /\ HoldsAll(cacheFile', cache) ]_vars

\* a flush was interrupted when a piece of the text was in the temporary
\* file: the cache file still holds its previous content, without the
\* entry the run has added
C11_Witness ==
    /\ pc = "crashed"
    /\ tmpFile.kind = "corrupt"
    /\ Len(tmpFile.entries) = 1
    /\ Len(cache) = 2
    /\ HoldsAll(cacheFile, cache0)
    /\ Len(cache0) = 1

\* C12: whatever calls of the capability fail, a run that is not
\* interrupted makes at most RETRY_LIMIT attempts for a fragment, every
\* call of translate_text_frag returns, and from the loop the run reaches
\* its end with one output line for each input line and the final
\* save_cache done.
C12_NeverAborts ==
    /\ [](attempt <= RETRY_LIMIT /\ ncall <= RETRY_LIMIT)
    /\ <>( /\ pc = "done"
           /\ total_lines = Len(inFile)
           /\ Len(outFile) = Len(inFile)
           /\ shutdown_saves = 1 )

\* a run of two lines has ended although every call of the capability
\* failed
C12_Witness ==
    /\ pc = "done"
    /\ Len(inFile) = 2
    /\ Len(outFile) = 2
    /\ fallbacks # {}
    /\ Len(calls) = RETRY_LIMIT * Cardinality(fallbacks)

\* every item of the value is a key with its value
IsMapping(c) == \A e \in Range(c) : Len(e) = 2

\* the members of the JSON text of a file
Persisted(file) ==
    { <<JsonParseString(e[1]), JsonParseString(e[2])>> : e \in Range(file.entries) }

\* C13 as stated: the step that loads the cache leaves the cache file and
\* its temporary sibling as they are and yields a mapping: the empty one
\* when the file is missing or is not the text of a JSON object, the
\* persisted one otherwise.
C13_Original ==
    [][ (pc = "start" /\ interrupts' = interrupts) =>
           /\ cacheFile' = cacheFile
           /\ tmpFile' = tmpFile
           /\ IsMapping(cache')
           /\ Range(cache') =
                 (IF cacheFile.kind = "json" THEN Persisted(cacheFile) ELSE {}) ]_vars

\* C14: the file save_cache has written for the mapping in memory is read
\* back by load_cache as that mapping: the same keys with the same values,
\* in the same order.
C14_RoundTrip ==
    /\ pc = "save_replace" => load_cache(tmpFile) = cache
    /\ pc \in {"done", "exit1"} => load_cache(cacheFile) = cache

\* a run has saved a mapping of two keys in which a value holds a
\* backslash, which the text of the file spells with an escape
C14_Witness ==
    /\ pc = "done"
    /\ Len(cache) = 2
    /\ \E e \in Range(cache) : Contains(e[2], BS)
    /\ \E e \in Range(cacheFile.entries) : e[2] \notin { d[2] : d \in Range(cache) }

\* the fragments of a line that are not inert, left to right
Translatable(s) == SelectSeq(FragsFrom(s, 1), LAMBDA f : ~OnlyBlanks(f))

\* the last n entries of a sequence
LastN(q, n) == Slice(q, Len(q) - n + 1, Len(q))

\* C15: when translate_line returns, the new line is its argument with
\* the content of every fragment that is not inert replaced by the value
\* the cache holds for it, in the original quotes, and every other
\* character as it was, an unmatched last quote and the text after it
\* included; the fragments were substituted left to right; and every
\* substitution made, by a hit or by a miss, is an entry of the cache.
C15_TranslateLine ==
    /\ Range(subs) \subseteq Range(cache)
    /\ pc = "write" =>
          /\ new_line = Render(tl_line, 1, cache)
          /\ Len(subs) >= Len(Translatable(tl_line))
          /\ [i \in 1..Len(Translatable(tl_line)) |->
                 LastN(subs, Len(Translatable(tl_line)))[i][1]]
               = Translatable(tl_line)

\* the scenario of the specification, then a line with an odd number of
\* quotes: from an empty cache, x"a"x was written as x"b"x (the character
\* outside Latin-1 dropped by the encoding), the cache is {a: bW}, and
\* translate_line returns "bW"x" for "a"x"
C15_Witness ==
    /\ pc = "write"
    /\ cache0 = <<>>
    /\ cache = << << <<"a">>, <<"b", WIDE>> >> >>
    /\ outFile = << <<"x", DQ, "b", DQ, "x", LF>> >>
    /\ tl_line = <<DQ, "a", DQ, "x", DQ>>
    /\ new_line = <<DQ, "b", WIDE, DQ, "x", DQ>>

\* the keys of a mapping
Keys(c) == { e[1] : e \in Range(c) }

\* C16: once the cache is loaded, a step either leaves the in-memory cache
\* as it is or is the store of a cache miss, which adds, after the entries
\* present, one entry for a key that was absent; so no key is ever removed
\* and no value overwritten.
C16_CacheOnlyGrows ==
    [][ pc # "start" =>
          \/ cache' = cache
          \/ /\ pc = "miss_ret"
             /\ inner \notin Keys(cache)
             /\ misses # <<>>
             /\ misses[Len(misses)] = inner
             /\ cache' = cache \o << <<inner, out>> >> ]_vars

\* a miss has added a key to a cache that was loaded with another key
C16_Witness ==
    /\ pc = "sub"
    /\ source = "google"
    /\ Len(cache0) = 1
    /\ cache = cache0 \o << <<inner, out>> >>

\* C17: the periodic save is decided once for each line, right after the
\* line is written, from the clock alone: the cache is flushed if and only
\* if at least CACHE_SAVE_INTERVAL_SEC have passed since last_save (the
\* start of the run or the last periodic flush); the flush writes the
\* mapping to the cache file and sets last_save to the time read at the
\* check; so when the loop turns to the next line, less than the interval
\* separates the clock from last_save, however many lines were processed.
C17_PeriodicByClock ==
    [][ /\ (pc = "periodic" /\ pc' # "handler") =>
              /\ now' = clock
              /\ last_save' = last_save
              /\ IF clock - last_save >= CACHE_SAVE_INTERVAL_SEC
                 THEN pc' = "save_open" /\ save_ret' = "periodic"
                 ELSE pc' = "for"
        /\ (pc' = "save_open" /\ pc # "save_open" /\ save_ret' = "periodic") =>
              pc = "periodic"
        /\ (pc = "save_replace" /\ save_ret = "periodic" /\ pc' = "for") =>
              /\ last_save' = now
              /\ HoldsAll(cacheFile', cache)
        /\ (last_save' # last_save /\ pc' = "for") =>
              (pc = "start" \/ (pc = "save_replace" /\ save_ret = "periodic"))
        /\ pc' = "for" =>
              clock' - last_save' < CACHE_SAVE_INTERVAL_SEC ]_vars

\* a periodic flush has begun when exactly CACHE_SAVE_INTERVAL_SEC had
\* passed, after the first line of the input
C17_Witness ==
    /\ pc = "save_open"
    /\ save_ret = "periodic"
    /\ now - last_save = CACHE_SAVE_INTERVAL_SEC
    /\ lineno = 1
    /\ Len(inFile) = 2

\* translate_line returns changed = TRUE for input line i: a fragment of
\* the line is substituted by a text that differs from it
ChangedLine(i) ==
    \E f \in Range(FragsFrom(inFile[i].text, 1)) :
        ~OnlyBlanks(f) /\ ValueOf(cache, f) # f

\* C18: changed_lines never exceeds total_lines and neither is negative;
\* between two iterations of the loop total_lines is the number of lines
\* read and of lines written, and changed_lines the number of those lines
\* in which a fragment was substituted by a different text (none of them a
\* line without a quote).
C18_Counters ==
    /\ 0 <= changed_lines
    /\ changed_lines <= total_lines
    /\ pc = "for" =>
          /\ total_lines = lineno
          /\ total_lines = Len(outFile)
          /\ changed_lines = Cardinality({ i \in 1..lineno : ChangedLine(i) })
          /\ \A i \in 1..lineno :
                ChangedLine(i) => Contains(inFile[i].text, DQ)

\* two lines with fragments were processed; one was changed, the other
\* had its fragments substituted by the same text
C18_Witness ==
    /\ pc = "for"
    /\ total_lines = 2
    /\ changed_lines = 1
    /\ \A i \in 1..2 : Translatable(inFile[i].text) # <<>>

\* every substitution of fragment f put f itself
KeptAsIs(f) == \A e \in Range(subs) : e[1] = f => e[2] = f

\* C19: when the RETRY_LIMIT attempts for a fragment f have all failed,
\* the store after the miss puts f -> f in the cache and leaves the changed
\* flag as it is; for the rest of the run f has had its RETRY_LIMIT calls
\* and its one miss and no more, and every occurrence is written as f; in
\* a second run, which loads the cache the first run flushed, f is never
\* sent to the capability and every occurrence is written as f.
C19_FallbackCached ==
    /\ [][ (pc = "miss_ret" /\ inner \in fallbacks /\ pc' = "sub") =>
              /\ <<inner, inner>> \in Range(cache')
              /\ changed' = changed ]_vars
    /\ [] ( /\ \A f \in fallbacks :
                  /\ Count(calls, f) = RETRY_LIMIT
                  /\ Count(misses, f) = 1
                  /\ KeptAsIs(f)
                  /\ (pc = "miss_ret" /\ inner = f) \/ <<f, f>> \in Range(cache)
            /\ run = 2 =>
                  \A f \in prev.fallbacks :
                      /\ Count(calls, f) = 0
                      /\ Count(misses, f) = 0
                      /\ KeptAsIs(f)
                      /\ pc \in {"for", "done"} => <<f, f>> \in Range(cache) )

\* the second run has ended; the first had given up on a fragment that
\* was not in the cache it loaded, and the second has written that
\* fragment as it is, from the cache
C19_Witness ==
    /\ run = 2
    /\ pc = "done"
    /\ \E f \in prev.fallbacks :
          /\ f \notin Keys(prev.cache0)
          /\ <<f, f>> \in Range(subs)
          /\ <<f, f>> \in Range(cache0)
    /\ calls = <<>>

\* C20: after the cache is loaded, while the cache file holds the text of
\* a JSON object (or does not exist), every entry of the file is an entry
\* of the in-memory cache; and a flush over such a file keeps every entry
\* the file held.  (A run that ends by a traceback keeps the cache and the
\* file of the state before.)
C20_DiskBehindMemory ==
    /\ [] ( (pc \notin {"start", "crashed"} /\ cacheFile.kind \in {"json", "missing"})
              => Range(load_cache(cacheFile)) \subseteq Range(cache) )
    /\ [][ (pc # "start" /\ cacheFile.kind = "json" /\ cacheFile' # cacheFile)
              => /\ cacheFile'.kind = "json"
                 /\ Range(load_cache(cacheFile))
                      \subseteq Range(load_cache(cacheFile')) ]_vars

\* a periodic flush of this run has persisted an entry, and a later miss
\* has added another one, which is in memory only
C20_Witness ==
    /\ pc \in {"sub", "write", "periodic", "for"}
    /\ cacheFile.kind = "json"
    /\ Len(load_cache(cacheFile)) > Len(cache0)
    /\ Len(cache) > Len(load_cache(cacheFile))

====
